---- MODULE Spec2Model ----
(***************************************************************************)
(* Model of src/instagram_mcp_server.py: the module-level API Client       *)
(* handle `instagram_client`, the three request handlers registered by     *)
(* InstagramMCPServer._setup_handlers (handle_call_tool,                   *)
(* handle_read_resource, handle_get_prompt) and the startup sequence of    *)
(* InstagramMCPServer.run.                                                 *)
(*                                                                         *)
(* Conventions.  An optional value (a key of `arguments` that may be       *)
(* missing, an Optional field) is a sequence of length at most one: <<>>   *)
(* is "missing"/None and <<v>> is the value v.  A formatted string is the  *)
(* sequence of its literal and embedded parts.  A metadata mapping is a    *)
(* set of <<key, value>> pairs.  The handlers are registered when the      *)
(* InstagramMCPServer object is built, so they can be invoked before,      *)
(* during and after run(); every handler invocation is one action.         *)
(***************************************************************************)
EXTENDS Integers, Sequences, FiniteSets, TLC

VARIABLES
    instagram_client,  \* the module global: 0 is None, n > 0 the n-th handle built
    ctorRuns,          \* number of InstagramClient() constructions that succeeded
    pc,                \* position of run(): "created", "validating", "serving", "exited", "raised"
    exitStatus,        \* <<>> while the process lives, <<n>> after sys.exit(n)
    tokenCheck,        \* outcome of run()'s validate_access_token: "none", "true", "false", "raised"
    nCalls,            \* number of handler invocations made so far
    last               \* the record of the last completed handler invocation

vars == <<instagram_client, ctorRuns, pc, exitStatus, tokenCheck, nCalls, last>>

\* ------------------------------------------------------------------ bounds

MaxCalls == 2

\* ------------------------------------------------------ optional values

Missing == <<>>

Some(v) == <<v>>

\* Python truthiness of an optional string: None and "" are falsy.
Truthy(o) == o # Missing /\ o[1] # ""

\* Python truthiness of an optional list: None and [] are falsy.
TruthyList(o) == o # Missing /\ o[1] # <<>>

\* dict.get(key, default)
GetOr(o, default) == IF o = Missing THEN default ELSE o[1]

\* ------------------------------------------------------------- catalogs

ToolNames ==
    {"get_profile_info", "get_media_posts", "get_media_insights", "publish_media",
     "get_account_pages", "get_account_insights", "validate_access_token"}

ResourceUris ==
    {"instagram://profile", "instagram://media/recent",
     "instagram://insights/account", "instagram://pages"}

PromptNames == {"analyze_engagement", "content_strategy", "hashtag_analysis"}

\* the members of the two enumerations of models/instagram_models.py
InsightMetricValues ==
    {"reach", "likes", "comments", "shares", "saves", "plays",
     "profile_views", "website_clicks"}

InsightPeriodValues == {"day", "week", "days_28"}

\* --------------------------------------------------------------- inputs

OptUrls == {Missing, Some(""), Some("https://x/a.jpg")}

MetricLists ==
    {<<>>, <<"reach">>, <<"bogus">>, <<"reach", "bogus">>, <<"profile_views">>}

OptMetrics == {Missing} \cup {Some(m) : m \in MetricLists}

OptPeriods == {Missing, Some("day"), Some("days_28"), Some("month")}

OptMediaIds == {Missing, Some(""), Some("m1")}

OptPostCounts == {Missing, Some("3"), Some("abc")}

NoArgs ==
    [image_url |-> Missing, video_url |-> Missing, metrics |-> Missing,
     period |-> Missing, media_id |-> Missing, post_count |-> Missing]

\* the arguments mappings tried for a tool, resource or prompt name: the keys
\* the named branch reads vary, the keys it never reads stay missing
ArgsFor(name) ==
    CASE name = "publish_media" ->
           {[NoArgs EXCEPT !.image_url = i, !.video_url = v] :
                i \in OptUrls, v \in OptUrls}
      [] name = "get_media_insights" ->
           {[NoArgs EXCEPT !.media_id = m, !.metrics = ms] :
                m \in OptMediaIds, ms \in OptMetrics}
      [] name = "get_account_insights" ->
           {[NoArgs EXCEPT !.metrics = ms, !.period = p] :
                ms \in OptMetrics, p \in OptPeriods}
      [] name = "analyze_engagement" ->
           {[NoArgs EXCEPT !.media_id = m] : m \in OptMediaIds}
      [] name = "hashtag_analysis" ->
           {[NoArgs EXCEPT !.post_count = c] : c \in OptPostCounts}
      [] OTHER ->
           {NoArgs, [NoArgs EXCEPT !.image_url = Some("https://x/a.jpg"),
                                   !.video_url = Some("https://x/a.jpg")]}

CalledToolNames == ToolNames \cup {"delete_media", ""}

ReadUris == ResourceUris \cup {"instagram://stories", "platform://pages"}

AskedPromptNames == PromptNames \cup {"growth_plan"}

\* What the collaborators do during one invocation: whether InstagramClient()
\* can be built, how the first and the second API Client call end ("ok", the
\* structured InstagramAPIError "api", or any other exception "exc"), the
\* boolean validate_access_token returns, and whether PublishMediaRequest
\* accepts the arguments.
Worlds ==
    [ctor : {"ok", "fail"}, r1 : {"ok", "api", "exc"}, r2 : {"ok", "api", "exc"},
     valid : BOOLEAN, request : {"ok", "invalid"}]

CalmWorld == [ctor |-> "ok", r1 |-> "ok", r2 |-> "ok", valid |-> TRUE, request |-> "ok"]

\* the worlds that differ in something the invocation can observe: the
\* constructor runs only while the global is None, only content_strategy makes
\* a second call, only validate_access_token reads the boolean and only
\* publish_media builds a PublishMediaRequest
WorldsFor(name, client) ==
    {w \in Worlds :
        /\ (client # 0 => w.ctor = CalmWorld.ctor)
        /\ (name # "content_strategy" => w.r2 = CalmWorld.r2)
        /\ (name # "validate_access_token" => w.valid = CalmWorld.valid)
        /\ (name # "publish_media" => w.request = CalmWorld.request)}

\* ------------------------------------------------------- ResultEnvelope

\* MCPToolResult(success, data, error, metadata); a field not passed is None,
\* metadata not passed is empty
MCPToolResult(success, data, error, metadata) ==
    [success |-> success, data |-> data, error |-> error, metadata |-> metadata]

NoEnvelope == MCPToolResult(FALSE, Missing, Missing, {})

\* the text of an invocation that returned no text
NoText == [kind |-> "none", keys |-> {}, body |-> <<>>]

\* metadata={"tool": name, "timestamp": datetime.utcnow().isoformat()}
ToolMetadata(name) == {<<"tool", name>>, <<"timestamp", "utcnow">>}

SuccessEnvelope(name, data) ==
    MCPToolResult(TRUE, Some(data), Missing, ToolMetadata(name))

ExclusivityMessage == <<"Exactly one of image_url or video_url is required.">>

ExclusivityEnvelope(name) ==
    MCPToolResult(FALSE, Missing, Some(ExclusivityMessage), ToolMetadata(name))

\* the unknown-tool envelope built with the metadata of the other branches
UnknownToolEnvelope_WithMetadata(name) ==
    MCPToolResult(FALSE, Missing, Some(<<"Unknown tool: ", name>>), ToolMetadata(name))

UnknownToolEnvelope(name) ==
    MCPToolResult(FALSE, Missing, Some(<<"Unknown tool: ", name>>), {})

\* the InstagramAPIError the API Client raises: message, error_code, error_subcode
UpstreamError == [message |-> "upstream", error_code |-> "190", error_subcode |-> "460"]

\* the upstream-error envelope also carrying the error details as data
ApiErrorEnvelope_WithData(e) ==
    MCPToolResult(FALSE, Some(e.message), Some(<<"Instagram API error: ", e.message>>),
                  {<<"error_code", e.error_code>>, <<"error_subcode", e.error_subcode>>})

ApiErrorEnvelope(e) ==
    MCPToolResult(FALSE, Missing, Some(<<"Instagram API error: ", e.message>>),
                  {<<"error_code", e.error_code>>, <<"error_subcode", e.error_subcode>>})

\* the generic-error envelope stamped like the success envelopes
GenericErrorEnvelope_WithTimestamp(msg) ==
    MCPToolResult(FALSE, Missing, Some(<<"Tool execution failed: ", msg>>),
                  {<<"timestamp", "utcnow">>})

GenericErrorEnvelope(msg) ==
    MCPToolResult(FALSE, Missing, Some(<<"Tool execution failed: ", msg>>), {})

\* ------------------------------------------------- the body of a try block

\* A try body ends by returning a value ("ret"), by raising InstagramAPIError
\* ("api") or by raising any other Exception ("exc", with str(e) in msg);
\* calls lists the API Client operations it invoked, in order.
Returns(env, calls) == [kind |-> "ret", env |-> env, msg |-> "", calls |-> calls]

Raises(kind, msg, calls) == [kind |-> kind, env |-> NoEnvelope, msg |-> msg, calls |-> calls]

\* an await that calls the operation a second time when the first call failed
AwaitThenReturn_RetryOnce(op, r, env) ==
    IF r = "ok" THEN Returns(env, <<op>>)
    ELSE Raises(r, IF r = "api" THEN UpstreamError.message ELSE "boom", <<op, op>>)

\* `x = await instagram_client.op(...)` followed by `return _wrap(env)`
AwaitThenReturn(op, r, env) ==
    IF r = "ok" THEN Returns(env, <<op>>)
    ELSE Raises(r, IF r = "api" THEN UpstreamError.message ELSE "boom", <<op>>)

\* a coercion that looks at the first metric only
CoercionFails_FirstOnly(metrics) == metrics # <<>> /\ metrics[1] \notin InsightMetricValues

\* [InsightMetric(m) for m in metrics] raises ValueError at the first non-member
CoercionFails(metrics) == \E i \in 1..Len(metrics) : metrics[i] \notin InsightMetricValues

GetMediaInsightsBranch(name, args, w) ==
    IF args.media_id = Missing THEN Raises("exc", "'media_id'", <<>>)
    ELSE IF TruthyList(args.metrics) /\ CoercionFails(args.metrics[1])
         THEN Raises("exc", "not a valid InsightMetric", <<>>)
    ELSE AwaitThenReturn("get_media_insights", w.r1, SuccessEnvelope(name, "insights"))

\* a check that rejects only the arguments holding neither URL
ExclusivityViolated_NeitherOnly(image_url, video_url) ==
    ~Truthy(image_url) /\ ~Truthy(video_url)

\* bool(image_url) == bool(video_url)
ExclusivityViolated(image_url, video_url) == Truthy(image_url) <=> Truthy(video_url)

PublishMediaBranch(name, args, w) ==
    IF ExclusivityViolated(args.image_url, args.video_url)
    THEN Returns(ExclusivityEnvelope(name), <<>>)
    ELSE IF w.request = "invalid" THEN Raises("exc", "validation error", <<>>)
    ELSE AwaitThenReturn("publish_media", w.r1, SuccessEnvelope(name, "published"))

GetAccountInsightsBranch(name, args, w) ==
    IF GetOr(args.period, "day") \notin InsightPeriodValues
    THEN Raises("exc", "not a valid InsightPeriod", <<>>)
    ELSE AwaitThenReturn("get_account_insights", w.r1, SuccessEnvelope(name, "insights"))

ValidateAccessTokenBranch(name, w) ==
    AwaitThenReturn("validate_access_token", w.r1,
                    SuccessEnvelope(name, IF w.valid THEN "valid: true" ELSE "valid: false"))

CallToolBody(name, args, w) ==
    CASE name = "get_profile_info" ->
           AwaitThenReturn("get_profile_info", w.r1, SuccessEnvelope(name, "profile"))
      [] name = "get_media_posts" ->
           AwaitThenReturn("get_media_posts", w.r1, SuccessEnvelope(name, "posts"))
      [] name = "get_media_insights" -> GetMediaInsightsBranch(name, args, w)
      [] name = "publish_media" -> PublishMediaBranch(name, args, w)
      [] name = "get_account_pages" ->
           AwaitThenReturn("get_account_pages", w.r1, SuccessEnvelope(name, "pages"))
      [] name = "get_account_insights" -> GetAccountInsightsBranch(name, args, w)
      [] name = "validate_access_token" -> ValidateAccessTokenBranch(name, w)
      [] OTHER -> Returns(UnknownToolEnvelope(name), <<>>)

\* ------------------------------------------------------ results of a handler

\* A handler invocation either returns (an envelope, or a text) or raises to
\* its caller; client is the value of the global when it ends.
Outcome(outcome, env, text, calls, client) ==
    [outcome |-> outcome, env |-> env, text |-> text, calls |-> calls, client |-> client]

\* `if not instagram_client: instagram_client = InstagramClient()`: the handle
\* the handler goes on with, 0 when the construction raised
LazyClient(client, w) ==
    IF client # 0 THEN client
    ELSE IF w.ctor = "ok" THEN ctorRuns + 1 ELSE 0

handle_call_tool(client, name, args, w) ==
    LET c == LazyClient(client, w)
        b == CallToolBody(name, args, w)
    IN  IF c = 0 THEN Outcome("raised", NoEnvelope, NoText, <<>>, 0)
        ELSE CASE b.kind = "ret" -> Outcome("returned", b.env, NoText, b.calls, c)
               [] b.kind = "api" ->
                    Outcome("returned", ApiErrorEnvelope(UpstreamError), NoText, b.calls, c)
               [] OTHER ->
                    Outcome("returned", GenericErrorEnvelope(b.msg), NoText, b.calls, c)

\* ---------------------------------------------------------- Resource Reader

\* json.dumps of a mapping is a JSON object with the mapping's keys, json.dumps
\* of a list a JSON array; body holds the parts of the value of the key "error"
JsonObject(keys, body) == [kind |-> "object", keys |-> keys, body |-> body]

JsonArray == [kind |-> "array", keys |-> {}, body |-> <<>>]

\* json.dumps({"error": str(e)}, indent=2)
ErrorJson(msg) == JsonObject({"error"}, msg)

\* the keys of profile.dict()
ProfileKeys == {"id", "username", "followers_count"}

TextReturns(text, calls) == [kind |-> "ret", text |-> text, msg |-> <<>>, calls |-> calls]

TextRaises(msg, calls) == [kind |-> "exc", text |-> NoText, msg |-> msg, calls |-> calls]

\* str(e) of what an API Client call raises
ApiFailureText(r) == IF r = "api" THEN <<UpstreamError.message>> ELSE <<"boom">>

\* `x = await instagram_client.op(...)` followed by `return text`
AwaitThenText(op, r, text) ==
    IF r = "ok" THEN TextReturns(text, <<op>>) ELSE TextRaises(ApiFailureText(r), <<op>>)

ReadResourceBody(uri, w) ==
    CASE uri = "instagram://profile" ->
           AwaitThenText("get_profile_info", w.r1, JsonObject(ProfileKeys, <<>>))
      [] uri = "instagram://media/recent" ->
           AwaitThenText("get_media_posts", w.r1, JsonArray)
      [] uri = "instagram://insights/account" ->
           AwaitThenText("get_account_insights", w.r1, JsonArray)
      [] uri = "instagram://pages" ->
           AwaitThenText("get_account_pages", w.r1, JsonArray)
      [] OTHER -> TextRaises(<<"Unknown resource URI: ", uri>>, <<>>)

handle_read_resource(client, uri, w) ==
    LET c == LazyClient(client, w)
        b == ReadResourceBody(uri, w)
    IN  IF c = 0 THEN Outcome("raised", NoEnvelope, NoText, <<>>, 0)
        ELSE IF b.kind = "ret" THEN Outcome("returned", NoEnvelope, b.text, b.calls, c)
        ELSE Outcome("returned", NoEnvelope, ErrorJson(b.msg), b.calls, c)

\* ----------------------------------------------------------- Prompt Composer

PlainText(parts) == [kind |-> "plain", keys |-> {}, body |-> parts]

MediaIdRequiredText == PlainText(<<"Error: media_id is required for engagement analysis">>)

UnknownPromptText(name) == PlainText(<<"Error: Unknown prompt '", name, "'">>)

PromptErrorText(msg) == PlainText(<<"Error generating prompt: ">> \o msg)

\* the strings int() parses
IntLiterals == {"3", "10"}

AnalyzeEngagementBranch(args, w) ==
    IF ~Truthy(args.media_id) THEN TextReturns(MediaIdRequiredText, <<>>)
    ELSE AwaitThenText("get_media_insights", w.r1,
                       PlainText(<<"Analyze engagement for Instagram post ", args.media_id[1]>>))

ContentStrategyBranch(args, w) ==
    IF w.r1 # "ok" THEN TextRaises(ApiFailureText(w.r1), <<"get_media_posts">>)
    ELSE IF w.r2 # "ok"
         THEN TextRaises(ApiFailureText(w.r2), <<"get_media_posts", "get_account_insights">>)
    ELSE TextReturns(PlainText(<<"Create a content strategy focusing on ", "engagement">>),
                     <<"get_media_posts", "get_account_insights">>)

HashtagAnalysisBranch(args, w) ==
    IF GetOr(args.post_count, "10") \notin IntLiterals
    THEN TextRaises(<<"invalid literal for int() with base 10: ", args.post_count[1]>>, <<>>)
    ELSE AwaitThenText("get_media_posts", w.r1,
                       PlainText(<<"Analyze hashtag performance for the last ",
                                   GetOr(args.post_count, "10"), " posts.">>))

GetPromptBody(name, args, w) ==
    CASE name = "analyze_engagement" -> AnalyzeEngagementBranch(args, w)
      [] name = "content_strategy" -> ContentStrategyBranch(args, w)
      [] name = "hashtag_analysis" -> HashtagAnalysisBranch(args, w)
      [] OTHER -> TextReturns(UnknownPromptText(name), <<>>)

handle_get_prompt(client, name, args, w) ==
    LET c == LazyClient(client, w)
        b == GetPromptBody(name, args, w)
    IN  IF c = 0 THEN Outcome("raised", NoEnvelope, NoText, <<>>, 0)
        ELSE IF b.kind = "ret" THEN Outcome("returned", NoEnvelope, b.text, b.calls, c)
        ELSE Outcome("returned", NoEnvelope, PromptErrorText(b.msg), b.calls, c)

\* ------------------------------------------------------------- Server Shell

\* a gate whose exception handler logs and goes on to the serve loop
StartupGate_SwallowsException(r, valid) ==
    IF r = "ok" /\ ~valid
    THEN [pc |-> "exited", exitStatus |-> Some(1), tokenCheck |-> "false"]
    ELSE [pc |-> "serving", exitStatus |-> Missing,
          tokenCheck |-> IF r = "ok" THEN "true" ELSE "raised"]

\* run() after `is_valid = await instagram_client.validate_access_token()`:
\* a false result and an exception both end in sys.exit(1), a true result
\* goes on to the serve loop
StartupGate(r, valid) ==
    IF r = "ok" /\ valid
    THEN [pc |-> "serving", exitStatus |-> Missing, tokenCheck |-> "true"]
    ELSE [pc |-> "exited", exitStatus |-> Some(1),
          tokenCheck |-> IF r = "ok" THEN "false" ELSE "raised"]

\* ------------------------------------------------------------------ actions

NoCall ==
    [op |-> "none", name |-> "", args |-> NoArgs, w |-> CalmWorld, before |-> 0,
     res |-> Outcome("returned", NoEnvelope, NoText, <<>>, 0)]

Init ==
    /\ instagram_client = 0
    /\ ctorRuns = 0
    /\ pc = "created"
    /\ exitStatus = <<>>
    /\ tokenCheck = "none"
    /\ nCalls = 0
    /\ last = NoCall

Alive == pc \in {"created", "validating", "serving"}

Finish(op, name, args, w, res) ==
    /\ last' = [op |-> op, name |-> name, args |-> args, w |-> w,
                before |-> instagram_client, res |-> res]
    /\ instagram_client' = res.client
    /\ ctorRuns' = IF res.client # instagram_client THEN ctorRuns + 1 ELSE ctorRuns
    /\ nCalls' = nCalls + 1
    /\ UNCHANGED <<pc, exitStatus, tokenCheck>>

CallTool ==
    /\ Alive
    /\ nCalls < MaxCalls
    /\ \E name \in CalledToolNames : \E args \in ArgsFor(name) :
       \E w \in WorldsFor(name, instagram_client) :
          Finish("callTool", name, args, w, handle_call_tool(instagram_client, name, args, w))

ReadResource ==
    /\ Alive
    /\ nCalls < MaxCalls
    /\ \E uri \in ReadUris : \E w \in WorldsFor(uri, instagram_client) :
          Finish("readResource", uri, NoArgs, w, handle_read_resource(instagram_client, uri, w))

GetPrompt ==
    /\ Alive
    /\ nCalls < MaxCalls
    /\ \E name \in AskedPromptNames : \E args \in ArgsFor(name) :
       \E w \in WorldsFor(name, instagram_client) :
          Finish("getPrompt", name, args, w, handle_get_prompt(instagram_client, name, args, w))

\* run() up to its first await: `instagram_client = InstagramClient()`, an
\* exception of the constructor leaving run()
RunStart ==
    /\ pc = "created"
    /\ \E ctor \in {"ok", "fail"} :
          IF ctor = "ok"
          THEN /\ instagram_client' = ctorRuns + 1
               /\ ctorRuns' = ctorRuns + 1
               /\ pc' = "validating"
          ELSE /\ pc' = "raised"
               /\ UNCHANGED <<instagram_client, ctorRuns>>
    /\ UNCHANGED <<exitStatus, tokenCheck, nCalls, last>>

\* run() from the result of validate_access_token to the serve loop or the exit
RunValidate ==
    /\ pc = "validating"
    /\ \E r \in {"ok", "api", "exc"}, valid \in BOOLEAN :
          LET g == StartupGate(r, valid)
          IN  /\ pc' = g.pc
              /\ exitStatus' = g.exitStatus
              /\ tokenCheck' = g.tokenCheck
    /\ UNCHANGED <<instagram_client, ctorRuns, nCalls, last>>

\* the serve loop ends when the host closes the streams; main() returns
Shutdown ==
    /\ pc = "serving"
    /\ pc' = "exited"
    /\ exitStatus' = Some(0)
    /\ UNCHANGED <<instagram_client, ctorRuns, tokenCheck, nCalls, last>>

Next ==
    \/ CallTool
    \/ ReadResource
    \/ GetPrompt
    \/ RunStart
    \/ RunValidate
    \/ Shutdown

Spec == Init /\ [][Next]_vars

\* ------------------------------------------------------------------- claims

ToolCall == last.op = "callTool"

ResourceRead == last.op = "readResource"

PromptRequest == last.op = "getPrompt"

Returned == last.res.outcome = "returned"

\* the API Client call the invocation made ended in an error
ApiCallFailed ==
    \/ Len(last.res.calls) = 1 /\ last.w.r1 # "ok"
    \/ Len(last.res.calls) = 2 /\ last.w.r2 # "ok"

HasBogusMetric ==
    /\ last.args.metrics # Missing
    /\ \E i \in 1..Len(last.args.metrics[1]) : last.args.metrics[1][i] \notin InsightMetricValues

\* C1: handle_call_tool never raises to its caller: every invocation, whatever
\* the tool name, the arguments and the API Client do (the construction of the
\* client included), ends by returning an envelope, and the envelope has
\* success=false whenever the client could not be built or its call failed.
C1_CallToolNeverRaises ==
    ToolCall =>
        /\ Returned
        /\ (ApiCallFailed \/ (last.before = 0 /\ last.w.ctor = "fail")
                => ~last.res.env.success)

\* C2 as stated: for publish_media, when the arguments hold both image_url and
\* video_url, or neither, the envelope returned has success=false and the
\* fixed message, and no API Client operation was called.
C2_Original ==
    ( /\ ToolCall /\ Returned
      /\ last.name = "publish_media"
      /\ (last.args.image_url = Missing <=> last.args.video_url = Missing) )
    => /\ ~last.res.env.success
       /\ last.res.env.error = Some(ExclusivityMessage)
       /\ last.res.calls = <<>>

\* C2 amended: for publish_media, when image_url and video_url are both
\* non-empty, or each of them is missing or empty, the envelope returned has
\* success=false and the fixed message, and no API Client operation was called.
C2_Exclusivity ==
    ( /\ ToolCall /\ Returned
      /\ last.name = "publish_media"
      /\ (Truthy(last.args.image_url) <=> Truthy(last.args.video_url)) )
    => /\ ~last.res.env.success
       /\ last.res.env.error = Some(ExclusivityMessage)
       /\ last.res.calls = <<>>

C2_Witness ==
    /\ ToolCall /\ Returned
    /\ last.name = "publish_media"
    /\ Truthy(last.args.image_url) /\ Truthy(last.args.video_url)
    /\ last.res.env.error = Some(ExclusivityMessage)

\* C3: for a tool name outside the catalog of seven, the envelope returned has
\* success=false, the error "Unknown tool: " followed by the name as invoked,
\* no data and empty metadata, whatever the arguments are.
C3_UnknownTool ==
    (ToolCall /\ Returned /\ last.name \notin ToolNames)
    => /\ last.res.env = [success |-> FALSE, data |-> Missing,
                          error |-> Some(<<"Unknown tool: ", last.name>>),
                          metadata |-> {}]
       /\ last.res.calls = <<>>

C3_Witness ==
    /\ ToolCall /\ Returned
    /\ last.name = "delete_media"
    /\ last.args # NoArgs
    /\ last.res.env.error = Some(<<"Unknown tool: ", "delete_media">>)

\* C4: for get_media_insights, when metrics holds a string that is no member
\* of InsightMetric, get_media_insights of the API Client is not invoked and
\* the envelope returned has success=false.
C4_MediaMetricsCoerced ==
    (ToolCall /\ last.name = "get_media_insights" /\ HasBogusMetric)
    => /\ last.res.calls = <<>>
       /\ (Returned => ~last.res.env.success)

C4_Witness ==
    /\ ToolCall /\ Returned
    /\ last.name = "get_media_insights"
    /\ last.args.media_id = Some("m1")
    /\ last.args.metrics = Some(<<"reach", "bogus">>)
    /\ ~last.res.env.success
    /\ last.res.env.error[1][1] = "Tool execution failed: "

\* C5: for get_account_insights, when period is none of day, week, days_28, or
\* metrics holds a string that is no member of InsightMetric,
\* get_account_insights of the API Client is not invoked and the envelope
\* returned has success=false.
C5_AccountInsightsCoerced ==
    ( /\ ToolCall /\ last.name = "get_account_insights"
      /\ \/ HasBogusMetric
         \/ (last.args.period # Missing /\ last.args.period[1] \notin {"day", "week", "days_28"}) )
    => /\ last.res.calls = <<>>
       /\ (Returned => ~last.res.env.success)

\* C6: every envelope handle_call_tool returns has exactly one of data and
\* error populated, matching the flag: success=true with data and no error,
\* success=false with an error and no data.
C6_OneOfDataError ==
    (ToolCall /\ Returned)
    => /\ (last.res.env.success
              => last.res.env.data # Missing /\ last.res.env.error = Missing)
       /\ (~last.res.env.success
              => last.res.env.error # Missing /\ last.res.env.data = Missing)

C6_Witness ==
    /\ ToolCall /\ Returned
    /\ last.w.r1 = "api"
    /\ last.res.calls = <<"get_media_posts">>
    /\ last.res.env.error = Some(<<"Instagram API error: ", "upstream">>)

\* C7: run() builds the API Client and then validates the token; the serve
\* loop is entered only after a validation that returned true, and a
\* validation that returned false or raised ends the process with status 1.
C7_StartupGate ==
    /\ (pc \in {"validating", "serving"} => instagram_client # 0)
    /\ (pc = "serving" => tokenCheck = "true")
    /\ (tokenCheck \in {"false", "raised"} => pc = "exited" /\ exitStatus = Some(1))

C7_Witness == tokenCheck = "raised" /\ pc = "exited" /\ exitStatus = Some(1)

\* C8: handle_read_resource never raises to its caller: for every URI it
\* returns, and when the URI is not recognized or the API Client call failed
\* the text is a JSON object with the single key "error"; a recognized URI
\* makes exactly one API Client call and an unrecognized one makes none.
C8_ReadResourceNeverRaises ==
    ResourceRead =>
        /\ Returned
        /\ (last.name \notin ResourceUris \/ ApiCallFailed
               => last.res.text.kind = "object" /\ last.res.text.keys = {"error"})
        /\ (last.name \in ResourceUris => Len(last.res.calls) = 1)
        /\ (last.name \notin ResourceUris => last.res.calls = <<>>)

\* C9: handle_get_prompt never raises to its caller: every request returns a
\* text; an unknown prompt name, a missing or empty media_id of
\* analyze_engagement (with no API Client call made), a failed API Client
\* call and an unparsable post_count each return a plain-text error sentinel.
C9_GetPromptNeverRaises ==
    PromptRequest =>
        /\ Returned
        /\ (last.name \notin PromptNames
               => last.res.text = PlainText(<<"Error: Unknown prompt '", last.name, "'">>))
        /\ (last.name = "analyze_engagement" /\ ~Truthy(last.args.media_id)
               => /\ last.res.text
                       = PlainText(<<"Error: media_id is required for engagement analysis">>)
                  /\ last.res.calls = <<>>)
        /\ (ApiCallFailed \/ (last.name = "hashtag_analysis" /\ last.args.post_count = Some("abc"))
               => /\ last.res.text.kind = "plain"
                  /\ last.res.text.body[1] = "Error generating prompt: ")

\* C10: one API Client handle serves the whole process: over every sequence
\* of run() and handler invocations the constructor builds at most one
\* handle, so the handle an invocation finds is never replaced.
C10_SingleClient == ctorRuns <= 1

\* C11: one attempt per tool invocation: handle_call_tool calls at most one
\* API Client operation, and when that call fails (InstagramAPIError or any
\* other exception) the invocation returns an error envelope with no further
\* API Client call made.
C11_SingleAttempt ==
    ToolCall =>
        /\ Len(last.res.calls) <= 1
        /\ (last.res.calls # <<>> /\ last.w.r1 # "ok"
               => /\ Returned
                  /\ ~last.res.env.success
                  /\ last.res.env.error # Missing
                  /\ Len(last.res.calls) = 1)

C11_Witness ==
    /\ ToolCall /\ Returned
    /\ last.w.r1 = "exc"
    /\ last.res.calls = <<"publish_media">>
    /\ last.res.env.error = Some(<<"Tool execution failed: ", "boom">>)

\* the API Client raised the structured InstagramAPIError during the invocation
UpstreamFailure == last.res.calls # <<>> /\ last.w.r1 = "api"

\* the envelope of an upstream error: success=false, an error string ending
\* in the upstream message, metadata of exactly error_code and error_subcode
UpstreamShape(env) ==
    /\ ~env.success
    /\ env.error # Missing
    /\ env.error[1][Len(env.error[1])] = "upstream"
    /\ env.metadata = {<<"error_code", "190">>, <<"error_subcode", "460">>}

\* the publish_media invocation was refused by the exclusivity check
ExclusivityRefused ==
    /\ last.name = "publish_media"
    /\ last.res.env.error = Some(ExclusivityMessage)

\* C12 as stated: an envelope with success=false carries exactly error_code
\* and error_subcode (and an error ending in the upstream message) when the
\* API Client raised the structured error, and empty metadata on every other
\* failure.
C12_Original ==
    (ToolCall /\ Returned /\ ~last.res.env.success)
    => IF UpstreamFailure THEN UpstreamShape(last.res.env)
       ELSE last.res.env.metadata = {}

\* C12 amended: as stated, except that the envelope of a publish_media
\* exclusivity violation carries the tool name and the timestamp; every
\* failure other than these two has empty metadata.
C12_FailureMetadata ==
    (ToolCall /\ Returned /\ ~last.res.env.success)
    => IF UpstreamFailure THEN UpstreamShape(last.res.env)
       ELSE IF ExclusivityRefused
            THEN last.res.env.metadata
                   = {<<"tool", "publish_media">>, <<"timestamp", "utcnow">>}
       ELSE last.res.env.metadata = {}

C12_Witness ==
    /\ ToolCall /\ Returned
    /\ last.name = "get_media_insights"
    /\ last.args.media_id = Missing
    /\ last.res.env.error = Some(<<"Tool execution failed: ", "'media_id'">>)
    /\ last.res.env.metadata = {}

====
